---------------------------- MODULE Spec2Model ----------------------------
(***************************************************************************)
(* A model of cornrad.py: CornerRadiusLineSet, which rounds the corners of *)
(* a polyline.  draw() scans windows of three consecutive points, computes *)
(* the tangent circle of each corner, emits line / arc primitives to a     *)
(* vsketch sink and overwrites the corner with its outgoing tangent point. *)
(*                                                                         *)
(* Numbers.  The source computes in IEEE doubles.  The model computes the  *)
(* same expressions in exact real arithmetic over the numbers (n/d)*sqrt(s)*)
(* (n, d integers, s a square-free natural), which is closed under every   *)
(* operation draw() performs as long as each segment of the input has a    *)
(* rational length (axis-parallel and 3-4-5 steps).  Angles returned by    *)
(* acos are kept by their cosine, angles returned by atan2 by the direction*)
(* they point to plus a count of added full turns.                         *)
(***************************************************************************)
EXTENDS Integers, Sequences, FiniteSets, TLC

(***************************************************************************)
(* Exact numbers (n/d)*sqrt(s), always normalised: d > 0, gcd(n, d) = 1,   *)
(* s square-free, zero is 0/1*sqrt(1).  Equal reals have equal records.    *)
(***************************************************************************)
Abs(k) == IF k < 0 THEN -k ELSE k

Sgn(k) == IF k < 0 THEN -1 ELSE IF k = 0 THEN 0 ELSE 1

RECURSIVE Gcd(_, _)
Gcd(a, b) == IF b = 0 THEN a ELSE Gcd(b, a % b)

\* the integer square root of m, searched between lo and hi
RECURSIVE Isqrt(_, _, _)
Isqrt(m, lo, hi) ==
    IF lo >= hi THEN lo
    ELSE LET mid == (lo + hi + 1) \div 2
         IN  IF mid * mid <= m THEN Isqrt(m, mid, hi)
             ELSE Isqrt(m, lo, mid - 1)

\* <<k, m'>> with m = k*k*m' and m' square-free (m >= 1)
ExtractSq(m) ==
    LET ks == {k \in 1..Isqrt(m, 1, 46340) : m % (k * k) = 0}
        k  == CHOOSE q \in ks : \A j \in ks : j <= q
    IN  <<k, m \div (k * k)>>

Norm(n, d, s) ==
    IF n = 0 \/ s = 0 THEN [n |-> 0, d |-> 1, s |-> 1]
    ELSE LET e  == ExtractSq(s)
             n1 == n * e[1]
             g  == Gcd(Abs(n1), d)
         IN  [n |-> n1 \div g, d |-> d \div g, s |-> e[2]]

Int2Num(k) == [n |-> k, d |-> 1, s |-> 1]

Frac(p, q) == Norm(p, q, 1)

Zero == Int2Num(0)

One == Int2Num(1)

IsRational(a) == a.s = 1

Neg(a) == [a EXCEPT !.n = -a.n]

\* a + b: both rational multiples of the same square root (or one is zero)
Add(a, b) ==
    CASE a.n = 0 -> b
      [] b.n = 0 -> a
      [] a.n # 0 /\ b.n # 0 /\ a.s = b.s ->
            Norm(a.n * b.d + b.n * a.d, a.d * b.d, a.s)

Sub(a, b) == Add(a, Neg(b))

Mul(a, b) == Norm(a.n * b.n, a.d * b.d, a.s * b.s)

\* a / b, b # 0: 1 / ((n/d) sqrt s) = (d / (n s)) sqrt s
Div(a, b) ==
    CASE b.n # 0 -> Mul(a, Norm(Sgn(b.n) * b.d, Abs(b.n) * b.s, b.s))

Sq(a) == Mul(a, a)

\* math.sqrt of a rational a >= 0
Sqrt(a) ==
    CASE a.s = 1 /\ a.n >= 0 ->
            LET en == ExtractSq(a.n)
                ed == ExtractSq(a.d)
            IN  Norm(en[1], ed[1] * ed[2], en[2] * ed[2])

Sign(a) == Sgn(a.n)

Lt(a, b) == Sign(Sub(a, b)) < 0

Le(a, b) == Sign(Sub(a, b)) <= 0

NumAbs(a) == [a EXCEPT !.n = Abs(a.n)]

NumMax(a, b) == IF Lt(a, b) THEN b ELSE a

NumMin(a, b) == IF Lt(b, a) THEN b ELSE a


(***************************************************************************)
(* The epsilon of the degeneracy tests, 1e-10 = 1 / EpsInvRoot^2.          *)
(* x < 1e-10 for x = (n/d) sqrt s: x <= 0, or n*n*s*10^20 < d*d, computed  *)
(* by integer division so that no intermediate exceeds the integer range.  *)
(***************************************************************************)
EpsInvRoot == 100000

LtEps(x) ==
    \/ x.n <= 0
    \/ x.n * x.n * x.s
          <= ((((x.d * x.d - 1) \div EpsInvRoot) \div EpsInvRoot)
                    \div EpsInvRoot) \div EpsInvRoot

(***************************************************************************)
(* math.acos: an angle of [0, pi], kept by its cosine.  Half-angle values: *)
(* tan(t/2) = sqrt((1-cos t)/(1+cos t)), sin(t/2) = sqrt((1-cos t)/2),     *)
(* cos(t/2) = sqrt((1+cos t)/2).                                           *)
(***************************************************************************)
Acos(c) == [cos |-> c]

TanHalf(t) == Sqrt(Div(Sub(One, t.cos), Add(One, t.cos)))

SinHalf(t) == Sqrt(Div(Sub(One, t.cos), Int2Num(2)))

CosHalf(t) == Sqrt(Div(Add(One, t.cos), Int2Num(2)))

(***************************************************************************)
(* math.atan2(y, x): an angle of (-pi, pi], kept as the primitive integer  *)
(* direction <<dx, dy>> it points to and k, the full turns added to it     *)
(* (the angle is atan2(dy, dx) + 2*pi*k).  atan2(0, 0) is 0.               *)
(***************************************************************************)
Atan2(y, x) ==
    CASE IsRational(x) /\ IsRational(y) ->
        LET X == x.n * y.d
            Y == y.n * x.d
            g == Gcd(Abs(X), Abs(Y))
        IN  IF X = 0 /\ Y = 0 THEN [dx |-> 1, dy |-> 0, k |-> 0]
            ELSE [dx |-> X \div g, dy |-> Y \div g, k |-> 0]

\* where a principal angle lies: 0: (-pi, 0), 1: 0, 2: (0, pi), 3: pi
HalfPlane(a) ==
    IF a.dy < 0 THEN 0 ELSE IF a.dy > 0 THEN 2 ELSE IF a.dx > 0 THEN 1 ELSE 3

DirCross(a, b) == a.dx * b.dy - a.dy * b.dx

DirDot(a, b) == a.dx * b.dx + a.dy * b.dy

\* atan2 of a's direction < atan2 of b's direction
PrincipalLt(a, b) ==
    \/ HalfPlane(a) < HalfPlane(b)
    \/ HalfPlane(a) = HalfPlane(b) /\ DirCross(a, b) > 0

(***************************************************************************)
(* e - s as delta + 2*pi*m: delta in (-pi, pi] is the rotation from s's    *)
(* direction to e's, given by its sign class ("zero", "pos", "neg", "pi"). *)
(***************************************************************************)
AngleDiff(e, s) ==
    LET c     == DirCross(s, e)
        delta == IF c > 0 THEN "pos" ELSE IF c < 0 THEN "neg"
                 ELSE IF DirDot(s, e) > 0 THEN "zero" ELSE "pi"
        w     == IF PrincipalLt(s, e) /\ delta = "neg" THEN 1
                 ELSE IF PrincipalLt(e, s) /\ delta \in {"pos", "pi"} THEN -1
                 ELSE 0
    IN  [delta |-> delta, m |-> w + e.k - s.k]

\* abs(e - s) > math.pi
AbsDiffGtPi(e, s) ==
    LET d == AngleDiff(e, s)
    IN  \/ d.m >= 1
        \/ d.m <= -2
        \/ d.m = -1 /\ d.delta # "pi"

\* e > s
AngleGt(e, s) ==
    LET d == AngleDiff(e, s)
    IN  d.m > 0 \/ (d.m = 0 /\ d.delta \in {"pos", "pi"})

\* e == s
AngleEq(e, s) ==
    LET d == AngleDiff(e, s)
    IN  d.m = 0 /\ d.delta = "zero"

\* a +/- 2 * math.pi
AddTurns(a, j) == [a EXCEPT !.k = @ + j]


(***************************************************************************)
(* The sketch (vsketch.Vsketch) that draw() is given: the current stroke   *)
(* and, in out, the primitives drawn so far, each with the stroke it was   *)
(* drawn with.  p holds a primitive's coordinates, ang an arc's angles;    *)
(* rel marks a line whose end is stored as an offset from its start.       *)
(* History: in_debug is set while a _debug_draw block is open, and dbg     *)
(* marks the primitives drawn inside one.                                  *)
(***************************************************************************)
vsk_stroke(sk, c) == [sk EXCEPT !.stroke = c]

vsk_line(sk, x1, y1, x2, y2) ==
    [sk EXCEPT !.out = Append(@, [kind |-> "line", stroke |-> sk.stroke,
                                  p |-> <<x1, y1, x2, y2>>, ang |-> <<>>,
                                  rel |-> FALSE, dbg |-> sk.in_debug])]

vsk_circle(sk, x, y, r) ==
    [sk EXCEPT !.out = Append(@, [kind |-> "circle", stroke |-> sk.stroke,
                                  p |-> <<x, y, r>>, ang |-> <<>>,
                                  rel |-> FALSE, dbg |-> sk.in_debug])]

\* vsk.arc(x, y, w, h, start, stop, mode="center")
vsk_arc(sk, x, y, w, h, start, stop) ==
    [sk EXCEPT !.out = Append(@, [kind |-> "arc", stroke |-> sk.stroke,
                                  p |-> <<x, y, w, h>>,
                                  ang |-> <<start, stop>>, rel |-> FALSE, dbg |-> sk.in_debug])]

\* the bisector ray of debug mode, from (x, y) to (x + dx, y + dy): the sum
\* of a rational and a square root is not a number of the model
vsk_line_rel(sk, x, y, dx, dy) ==
    [sk EXCEPT !.out = Append(@, [kind |-> "line", stroke |-> sk.stroke,
                                  p |-> <<x, y, dx, dy>>, ang |-> <<>>,
                                  rel |-> TRUE, dbg |-> sk.in_debug])]

(***************************************************************************)
(* _debug_draw, the context manager, as its two halves around the yield.   *)
(***************************************************************************)
original_stroke == 1

debug_draw_enter(dbg, sk, stroke_value) ==
    IF dbg THEN [vsk_stroke(sk, stroke_value) EXCEPT !.in_debug = TRUE]
    ELSE sk

debug_draw_exit(dbg, sk) ==
    IF dbg THEN [vsk_stroke(sk, original_stroke) EXCEPT !.in_debug = FALSE]
    ELSE sk

\* variant: the marker circles drawn whether or not debug is set
RECURSIVE DebugPoints_always(_, _, _, _)
DebugPoints_always(dbg, pts, k, sk) ==
    IF k > Len(pts) THEN sk
    ELSE DebugPoints_always(dbg, pts, k + 1,
            debug_draw_exit(dbg,
                vsk_circle(debug_draw_enter(dbg, sk, 2),
                           pts[k][1], pts[k][2], Frac(1, 10))))

\* draw(), the loop over the points in debug mode
RECURSIVE DebugPoints(_, _, _, _)
DebugPoints(dbg, pts, k, sk) ==
    IF ~dbg \/ k > Len(pts) THEN sk
    ELSE DebugPoints(dbg, pts, k + 1,
            debug_draw_exit(dbg,
                vsk_circle(debug_draw_enter(dbg, sk, 2),
                           pts[k][1], pts[k][2], Frac(1, 10))))

\* draw(): "Need at least 3 points to form a corner"
TooFewPoints(pts) == Len(pts) < 3

(***************************************************************************)
(* The geometry of one corner: the body of draw()'s loop, in its order.    *)
(* Vectors are pairs <<x, y>>.                                             *)
(***************************************************************************)
Length(vx, vy) == Sqrt(Add(Sq(vx), Sq(vy)))

PointsTooClose(Ag_length, gB_length) ==
    LtEps(Ag_length) \/ LtEps(gB_length)

Unit(vx, vy, len) == <<Div(vx, len), Div(vy, len)>>

\* max(-1.0, min(1.0, v))
Clamp(v) == NumMax(Neg(One), NumMin(One, v))

dot_product(Ag_unit, gB_unit) ==
    LET neg_gB_unit == <<Neg(gB_unit[1]), Neg(gB_unit[2])>>
    IN  Clamp(Add(Mul(Ag_unit[1], neg_gB_unit[1]),
                  Mul(Ag_unit[2], neg_gB_unit[2])))

(***************************************************************************)
(* interior_angle < 1e-10 or interior_angle > math.pi - 1e-10.  An angle t *)
(* is compared with 1e-10 through its chord 2*sin(t/2), and pi - t through *)
(* 2*cos(t/2); chord and angle differ by less than 1e-30 at 1e-10.         *)
(***************************************************************************)
AngleOutOfRange(interior_angle) ==
    \/ LtEps(Mul(Int2Num(2), SinHalf(interior_angle)))
    \/ LtEps(Mul(Int2Num(2), CosHalf(interior_angle)))

\* variant: the radius multiplied by the half-angle tangent
tangent_distance_times(radius, interior_angle) ==
    Mul(radius, TanHalf(interior_angle))

tangent_distance(radius, interior_angle) ==
    Div(radius, TanHalf(interior_angle))

\* variant: the incoming tangent point taken on the far side of the corner
TangentA_plus(gx, gy, t, Ag_unit) ==
    <<Add(gx, Mul(t, Ag_unit[1])), Add(gy, Mul(t, Ag_unit[2]))>>

TangentA(gx, gy, t, Ag_unit) ==
    <<Sub(gx, Mul(t, Ag_unit[1])), Sub(gy, Mul(t, Ag_unit[2]))>>

TangentB(gx, gy, t, gB_unit) ==
    <<Add(gx, Mul(t, gB_unit[1])), Add(gy, Mul(t, gB_unit[2]))>>

\* variant: the bisector summed without turning Ag_unit away from g
bisector_unit_sum(Ag_unit, gB_unit) ==
    LET bisector_x == Add(Ag_unit[1], gB_unit[1])
        bisector_y == Add(Ag_unit[2], gB_unit[2])
        bisector_length == Length(bisector_x, bisector_y)
    IN  IF LtEps(bisector_length)
        THEN <<Ag_unit[2], Neg(Ag_unit[1])>>
        ELSE <<Div(bisector_x, bisector_length),
               Div(bisector_y, bisector_length)>>

bisector_unit(Ag_unit, gB_unit) ==
    LET bisector_x == Add(Neg(Ag_unit[1]), gB_unit[1])
        bisector_y == Add(Neg(Ag_unit[2]), gB_unit[2])
        bisector_length == Length(bisector_x, bisector_y)
    IN  IF LtEps(bisector_length)
        THEN <<Ag_unit[2], Neg(Ag_unit[1])>>
        ELSE <<Div(bisector_x, bisector_length),
               Div(bisector_y, bisector_length)>>

center_distance(radius, interior_angle) ==
    Div(radius, SinHalf(interior_angle))

Center(gx, gy, cd, bis) ==
    <<Add(gx, Mul(cd, bis[1])), Add(gy, Mul(cd, bis[2]))>>

\* "if cross_z < 0: start_angle, end_angle = end_angle, start_angle"
SelectArc(start_angle, end_angle, cross_z) ==
    IF Sign(cross_z) < 0 THEN <<end_angle, start_angle>>
    ELSE <<start_angle, end_angle>>

\* variant: the angles left as they are after the swap
NormalizeArc_none(start_angle, end_angle) == <<start_angle, end_angle>>

\* "if abs(end_angle - start_angle) > math.pi: ..."
NormalizeArc(start_angle, end_angle) ==
    IF AbsDiffGtPi(end_angle, start_angle)
    THEN IF AngleGt(end_angle, start_angle)
         THEN <<start_angle, AddTurns(end_angle, -1)>>
         ELSE <<start_angle, AddTurns(end_angle, 1)>>
    ELSE <<start_angle, end_angle>>

ArcAngles(a, b, c) ==
    LET ca_vector == <<Sub(a[1], c[1]), Sub(a[2], c[2])>>
        cb_vector == <<Sub(b[1], c[1]), Sub(b[2], c[2])>>
        start_angle == Atan2(ca_vector[2], ca_vector[1])
        end_angle == Atan2(cb_vector[2], cb_vector[1])
        cross_z == Sub(Mul(ca_vector[1], cb_vector[2]),
                       Mul(ca_vector[2], cb_vector[1]))
        sel == SelectArc(start_angle, end_angle, cross_z)
    IN  NormalizeArc(sel[1], sel[2])

\* the debug drawing of a window's two raw segments
DebugCornerLines(dbg, sk, A, g, B) ==
    IF dbg
    THEN debug_draw_exit(dbg,
            vsk_line(vsk_line(debug_draw_enter(dbg, sk, 2),
                              A[1], A[2], g[1], g[2]),
                     g[1], g[2], B[1], B[2]))
    ELSE sk

\* the debug drawing of the circle, the tangent points and the bisector
DebugConstruction(dbg, sk, g, a, b, c, radius, bis) ==
    IF dbg
    THEN LET s1 == debug_draw_exit(dbg,
                      vsk_circle(debug_draw_enter(dbg, sk, 2),
                                 c[1], c[2], radius))
             s2 == debug_draw_exit(dbg,
                      vsk_circle(vsk_circle(debug_draw_enter(dbg, s1, 3),
                                            a[1], a[2], Frac(1, 20)),
                                 b[1], b[2], Frac(1, 20)))
             debug_bisector_length == Frac(1, 2)
         IN  debug_draw_exit(dbg,
                vsk_line_rel(debug_draw_enter(dbg, s2, 3), g[1], g[2],
                             Mul(debug_bisector_length, bis[1]),
                             Mul(debug_bisector_length, bis[2])))
    ELSE sk

\* "Draw the connecting lines and arc"; n is len(self.points)
EmitCorner(sk, i, n, A, a, c, radius, angles, b, B) ==
    LET s1 == vsk_line(sk, A[1], A[2], a[1], a[2])
        s2 == vsk_arc(s1, c[1], c[2], Mul(Int2Num(2), radius),
                      Mul(Int2Num(-2), radius), angles[1], angles[2])
    IN  IF i = n - 3 THEN vsk_line(s2, b[1], b[2], B[1], B[2]) ELSE s2

\* variant: the corner is not overwritten
Chain_none(pts, i, b) == pts

\* "set the NEXT point to be the b tangent point"
Chain(pts, i, b) ==
    IF Len(pts) > 1
    THEN [pts EXCEPT ![i + 2] = <<b[1], b[2], pts[i + 2][3]>>]
    ELSE pts

\* variant: a skipped corner is drawn sharp, as a line from A to g
SkipCorner_sharp(pts, sk, l) ==
    [points |-> pts, vsk |-> vsk_line(sk, l.A[1], l.A[2], l.g[1], l.g[2]),
     w |-> [i |-> l.i, A |-> l.A, g |-> l.g, B |-> l.B, radius |-> l.radius,
            skipped |-> TRUE, Ag_length |-> Zero, gB_length |-> Zero,
            cos |-> Zero, t |-> Zero, a |-> l.g, b |-> l.g, c |-> l.g]]

\* "continue": the window is left as it is
SkipCorner(pts, sk, l) ==
    [points |-> pts, vsk |-> sk,
     w |-> [i |-> l.i, A |-> l.A, g |-> l.g, B |-> l.B, radius |-> l.radius,
            skipped |-> TRUE, Ag_length |-> Zero, gB_length |-> Zero,
            cos |-> Zero, t |-> Zero, a |-> l.g, b |-> l.g, c |-> l.g]]

(***************************************************************************)
(* The locals of one iteration, gathered in a record l in the order the    *)
(* loop body assigns them; each operator adds the locals of its lines.     *)
(***************************************************************************)
\* "Get three consecutive points", for the window at i (from 0)
Window(pts, i) ==
    [i |-> i,
     A |-> <<pts[i + 1][1], pts[i + 1][2]>>,
     g |-> <<pts[i + 2][1], pts[i + 2][2]>>,
     radius |-> pts[i + 2][3],
     B |-> <<pts[i + 3][1], pts[i + 3][2]>>]

Vectors(l) ==
    [Ag_vector |-> <<Sub(l.g[1], l.A[1]), Sub(l.g[2], l.A[2])>>,
     gB_vector |-> <<Sub(l.B[1], l.g[1]), Sub(l.B[2], l.g[2])>>] @@ l

Lengths(l) ==
    [Ag_length |-> Length(l.Ag_vector[1], l.Ag_vector[2]),
     gB_length |-> Length(l.gB_vector[1], l.gB_vector[2])] @@ l

Units(l) ==
    [Ag_unit |-> Unit(l.Ag_vector[1], l.Ag_vector[2], l.Ag_length),
     gB_unit |-> Unit(l.gB_vector[1], l.gB_vector[2], l.gB_length)] @@ l

InteriorAngle(l) ==
    [interior_angle |-> Acos(dot_product(l.Ag_unit, l.gB_unit))] @@ l

TangentDistance(l) ==
    [t |-> tangent_distance(l.radius, l.interior_angle)] @@ l

TangentPoints(l) ==
    [a |-> TangentA(l.g[1], l.g[2], l.t, l.Ag_unit),
     b |-> TangentB(l.g[1], l.g[2], l.t, l.gB_unit)] @@ l

Bisector(l) == [bis |-> bisector_unit(l.Ag_unit, l.gB_unit)] @@ l

CircleCenter(l) ==
    [c |-> Center(l.g[1], l.g[2],
                  center_distance(l.radius, l.interior_angle), l.bis)] @@ l

Angles(l) == [angles |-> ArcAngles(l.a, l.b, l.c)] @@ l

\* the end of the iteration: the drawing, and the corner overwritten
RoundCorner(pts, dbg, sk, l) ==
    [points |-> Chain(pts, l.i, l.b),
     vsk |-> EmitCorner(
                DebugConstruction(dbg, sk, l.g, l.a, l.b, l.c, l.radius,
                                  l.bis),
                l.i, Len(pts), l.A, l.a, l.c, l.radius, l.angles, l.b, l.B),
     w |-> [i |-> l.i, A |-> l.A, g |-> l.g, B |-> l.B, radius |-> l.radius,
            skipped |-> FALSE, Ag_length |-> l.Ag_length,
            gB_length |-> l.gB_length, cos |-> l.interior_angle.cos,
            t |-> l.t, a |-> l.a, b |-> l.b, c |-> l.c]]

\* from "Skip if angle is too small or too large" on
FromAngleTest(pts, dbg, sk, l) ==
    IF AngleOutOfRange(l.interior_angle)
    THEN SkipCorner(pts, sk, l)
    ELSE RoundCorner(pts, dbg, sk,
            Angles(CircleCenter(Bisector(TangentPoints(TangentDistance(l))))))

\* from "Skip if points are too close" on
FromLengthTest(pts, dbg, sk, l) ==
    IF PointsTooClose(l.Ag_length, l.gB_length)
    THEN SkipCorner(pts, sk, l)
    ELSE FromAngleTest(pts, dbg, sk, InteriorAngle(Units(l)))

\* the raw segments of debug mode, then the rest
FromDebugLines(pts, dbg, sk, l) ==
    FromLengthTest(pts, dbg, DebugCornerLines(dbg, sk, l.A, l.g, l.B),
                   Lengths(Vectors(l)))

(***************************************************************************)
(* One iteration of draw()'s loop, for the window at i (from 0): the new   *)
(* points, the new sketch and the window's trace record.                   *)
(***************************************************************************)
DrawCorner(pts, i, dbg, sk) == FromDebugLines(pts, dbg, sk, Window(pts, i))

(***************************************************************************)
(* The state.  heap holds the list objects, a reference is an index into   *)
(* it; self is the line set (its points attribute is a reference), vsk the *)
(* sketch.  pc and i are the position of draw(): "idle" before the call,   *)
(* "loop" before the iteration for window i, "done" after the return.      *)
(* History: orig is the caller's list as it was handed to the constructor, *)
(* pts0 and stroke0 the points and the stroke when draw() was called,      *)
(* trace one record per window the loop has gone through.                  *)
(***************************************************************************)
VARIABLES heap, self, vsk, pc, i, orig, pts0, stroke0, trace

vars == <<heap, self, vsk, pc, i, orig, pts0, stroke0, trace>>

\* the most points a line set is given
MaxPts == 4

\* the caller's list object
CallerRef == 1

Pt(x, y, r) == <<Int2Num(x), Int2Num(y), Int2Num(r)>>

\* the lists handed to the constructor
InitLists == {<<>>, <<Pt(0, 0, 0)>>}

\* the strokes the sketch may have when draw() is called
InitStrokes == {1, 4}

\* add_point's arguments, as <<dx, dy, r>>: a step from the last point (from
\* the origin on an empty list) and the radius
Moves == {<<10, 0, 2>>, <<0, 10, 0>>, <<-10, 0, 10>>, <<0, 0, 2>>,
          <<3, 4, -5>>}

\* __init__: the list is stored as it is given, not copied
CornerRadiusLineSet(points, debug) == [points |-> points, debug |-> debug]

\* get_points: the list object itself
get_points == self.points

\* self.points, read through the reference
points == heap[self.points]

Init ==
    \E L \in InitLists, d \in BOOLEAN, st \in InitStrokes :
        /\ heap = <<L>>
        /\ self = CornerRadiusLineSet(CallerRef, d)
        /\ vsk = [stroke |-> st, out |-> <<>>, in_debug |-> FALSE]
        /\ pc = "idle"
        /\ i = 0
        /\ orig = L
        /\ pts0 = L
        /\ stroke0 = st
        /\ trace = <<>>

\* self.points.append((x, y, r))
Appended(pts, x, y, r) == Append(pts, <<x, y, r>>)

add_point(x, y, r) ==
    /\ pc = "idle"
    /\ Len(points) < MaxPts
    /\ heap' = [heap EXCEPT ![self.points] = Appended(@, x, y, r)]
    /\ pts0' = heap'[self.points]
    /\ UNCHANGED <<self, vsk, pc, i, orig, stroke0, trace>>

\* draw() up to the loop: the debug points, the return on fewer than 3 points
DrawBegin ==
    /\ pc = "idle"
    /\ vsk' = DebugPoints(self.debug, points, 1, vsk)
    /\ pc' = IF TooFewPoints(points) THEN "done" ELSE "loop"
    /\ i' = 0
    /\ pts0' = points
    /\ stroke0' = vsk.stroke
    /\ UNCHANGED <<heap, self, orig, trace>>

\* one iteration of "for i in range(len(self.points) - 2)"
DrawWindow ==
    /\ pc = "loop"
    /\ i < Len(points) - 2
    /\ \E r \in {DrawCorner(points, i, self.debug, vsk)} :
           /\ heap' = [heap EXCEPT ![self.points] = r.points]
           /\ vsk' = r.vsk
           /\ trace' = Append(trace, r.w)
    /\ i' = i + 1
    /\ UNCHANGED <<self, pc, orig, pts0, stroke0>>

\* the loop is exhausted: draw() returns
DrawReturn ==
    /\ pc = "loop"
    /\ i >= Len(points) - 2
    /\ pc' = "done"
    /\ UNCHANGED <<heap, self, vsk, i, orig, pts0, stroke0, trace>>

LastXY(pts) ==
    IF pts = <<>> THEN <<Zero, Zero>> ELSE <<pts[Len(pts)][1], pts[Len(pts)][2]>>

Next ==
    \/ \E m \in Moves :
          add_point(Add(LastXY(points)[1], Int2Num(m[1])),
                    Add(LastXY(points)[2], Int2Num(m[2])), Int2Num(m[3]))
    \/ DrawBegin
    \/ DrawWindow
    \/ DrawReturn

Spec == Init /\ [][Next]_vars


(***************************************************************************)
(* Vocabulary of the properties.                                           *)
(***************************************************************************)
VSub(p, q) == <<Sub(p[1], q[1]), Sub(p[2], q[2])>>

VDot(u, v) == Add(Mul(u[1], v[1]), Mul(u[2], v[2]))

VCross(u, v) == Sub(Mul(u[1], v[2]), Mul(u[2], v[1]))

DistSq(p, q) == VDot(VSub(p, q), VSub(p, q))

XY(pt) == <<pt[1], pt[2]>>

LineStart(q) == <<q.p[1], q.p[2]>>

LineEnd(q) == <<q.p[3], q.p[4]>>

IsPathPrim(q) == ~q.dbg

\* the primitives drawn outside the debug blocks: the path
Path == SelectSeq(vsk.out, IsPathPrim)

IsRounded(w) == ~w.skipped

\* the windows that were rounded, in order; the j-th of them drew
\* Path[2j - 1] (its line) and Path[2j] (its arc)
Rounded == SelectSeq(trace, IsRounded)

Arcs == {k \in DOMAIN vsk.out : vsk.out[k].kind = "arc"}

Scenario == <<Pt(0, 0, 0), Pt(10, 0, 2), Pt(10, 10, 0)>>

NumPt(x, y) == <<Int2Num(x), Int2Num(y)>>

\* a window that is degenerate by its raw geometry: a segment shorter than
\* 1e-10, or the three points on one line
DegenerateWindow(pts, k) ==
    LET u == VSub(XY(pts[k + 2]), XY(pts[k + 1]))
        v == VSub(XY(pts[k + 3]), XY(pts[k + 2]))
    IN  \/ LtEps(Length(u[1], u[2]))
        \/ LtEps(Length(v[1], v[2]))
        \/ VCross(u, v) = Zero

(***************************************************************************)
(* C1: for [(0,0,0), (10,0,2), (10,10,0)] with debug off, draw emits       *)
(* exactly a line (0,0)-(8,0), one arc of radius 2 (width 4) and a line    *)
(* (10,2)-(10,10), in this order; both tangent points are at distance 2    *)
(* from the corner (10,0), on their segments.                              *)
(***************************************************************************)
C1_ScenarioOutput ==
    (pc = "done" /\ pts0 = Scenario /\ ~self.debug) =>
        /\ Len(vsk.out) = 3
        /\ vsk.out[1].kind = "line"
        /\ vsk.out[1].p = <<Int2Num(0), Int2Num(0), Int2Num(8), Int2Num(0)>>
        /\ vsk.out[2].kind = "arc"
        /\ vsk.out[2].p[3] = Int2Num(4)
        /\ vsk.out[3].kind = "line"
        /\ vsk.out[3].p = <<Int2Num(10), Int2Num(2), Int2Num(10), Int2Num(10)>>
        /\ DistSq(LineEnd(vsk.out[1]), NumPt(10, 0)) = Int2Num(4)
        /\ DistSq(LineStart(vsk.out[3]), NumPt(10, 0)) = Int2Num(4)

C1_Witness == pc = "done" /\ pts0 = Scenario /\ ~self.debug /\ Len(vsk.out) = 3

(***************************************************************************)
(* C2, as claimed: for [(0,0,0), (10,0,2), (10,10,0)] the arc is a 90      *)
(* degree arc of radius 2 centred at (8,8).                                *)
(***************************************************************************)
C2_CenterAt88 ==
    (pc = "done" /\ pts0 = Scenario) =>
        /\ Len(Path) = 3
        /\ Path[2].kind = "arc"
        /\ <<Path[2].p[1], Path[2].p[2]>> = NumPt(8, 8)
        /\ Path[2].p[3] = Int2Num(4)

(***************************************************************************)
(* C2, amended: for [(0,0,0), (10,0,2), (10,10,0)] the arc is a 90 degree  *)
(* arc of radius 2 (width 4, height -4) centred at (8,2), from -pi/2 (the  *)
(* direction of the tangent point (8,0)) to 0 (that of (10,2)).            *)
(***************************************************************************)
C2_CenterAt82 ==
    (pc = "done" /\ pts0 = Scenario) =>
        /\ Len(Path) = 3
        /\ Path[2].kind = "arc"
        /\ Path[2].p = <<Int2Num(8), Int2Num(2), Int2Num(4), Int2Num(-4)>>
        /\ Path[2].ang = <<[dx |-> 0, dy |-> -1, k |-> 0],
                           [dx |-> 1, dy |-> 0, k |-> 0]>>
        /\ DirDot(Path[2].ang[1], Path[2].ang[2]) = 0
        /\ AngleDiff(Path[2].ang[2], Path[2].ang[1]).m = 0

C2_Witness == pc = "done" /\ pts0 = Scenario /\ Len(Path) = 3 /\ self.debug

(***************************************************************************)
(* C3: for every rounded window A, g, B with radius r > 0 and tangent      *)
(* distance t smaller than both segment lengths: the angle used is the     *)
(* angle at g between g-A and g-B, t = r / tan(angle / 2), the tangent     *)
(* points a and b lie on the segments A-g and g-B at distance t from g,    *)
(* and the centre c is at distance r from a and from b, with c-a and c-b   *)
(* perpendicular to the segments.                                          *)
(***************************************************************************)
C3_Applies(w) ==
    /\ ~w.skipped
    /\ Sign(w.radius) > 0
    /\ Lt(w.t, w.Ag_length)
    /\ Lt(w.t, w.gB_length)

C3_Holds(w) ==
    LET u == VSub(w.A, w.g)
        v == VSub(w.B, w.g)
    IN  /\ Mul(Sq(w.cos), Mul(DistSq(w.A, w.g), DistSq(w.B, w.g)))
              = Sq(VDot(u, v))
        /\ Sign(w.cos) = Sign(VDot(u, v))
        /\ Sign(w.t) > 0
        /\ Mul(Sq(w.t), Sub(One, w.cos)) = Mul(Sq(w.radius), Add(One, w.cos))
        /\ VCross(VSub(w.a, w.g), u) = Zero
        /\ Sign(VDot(VSub(w.a, w.g), u)) > 0
        /\ DistSq(w.a, w.g) = Sq(w.t)
        /\ VCross(VSub(w.b, w.g), v) = Zero
        /\ Sign(VDot(VSub(w.b, w.g), v)) > 0
        /\ DistSq(w.b, w.g) = Sq(w.t)
        /\ DistSq(w.c, w.a) = Sq(w.radius)
        /\ DistSq(w.c, w.b) = Sq(w.radius)
        /\ VDot(VSub(w.c, w.a), u) = Zero
        /\ VDot(VSub(w.c, w.b), v) = Zero

C3_TangentCircle ==
    \A k \in DOMAIN trace : C3_Applies(trace[k]) => C3_Holds(trace[k])

\* a window with an angle other than a right angle, and one after a chained
\* corner
C3_Witness ==
    /\ \E k \in DOMAIN trace : C3_Applies(trace[k]) /\ trace[k].cos # Zero
    /\ \E k \in DOMAIN trace : k > 1 /\ C3_Applies(trace[k])
                                     /\ ~trace[k - 1].skipped

C5_Chaining ==
    /\ \A k \in DOMAIN trace :
          ~trace[k].skipped =>
              /\ points[trace[k].i + 2]
                    = <<trace[k].b[1], trace[k].b[2], pts0[trace[k].i + 2][3]>>
              /\ k + 1 \in DOMAIN trace => trace[k + 1].A = trace[k].b
    /\ \A j \in DOMAIN Rounded :
          /\ Path[2 * j - 1].kind = "line"
          /\ LineStart(Path[2 * j - 1]) = Rounded[j].A
          /\ (j > 1 /\ Rounded[j].i = Rounded[j - 1].i + 1) =>
                LineStart(Path[2 * j - 1]) = Rounded[j - 1].b

\* four points or more, two corners in a row rounded, the first one moved
C5_Witness ==
    /\ pc = "done"
    /\ Len(pts0) >= 4
    /\ ~trace[1].skipped /\ ~trace[2].skipped
    /\ trace[1].b # trace[1].g
    /\ XY(points[2]) # XY(pts0[2])

C7_FewPoints ==
    (pc = "done" /\ Len(pts0) < 3) =>
        /\ points = pts0
        /\ Path = <<>>
        /\ trace = <<>>
        /\ ~self.debug => vsk.out = <<>>
        /\ self.debug =>
              /\ Len(vsk.out) = Len(pts0)
              /\ \A k \in DOMAIN vsk.out :
                    /\ vsk.out[k].kind = "circle"
                    /\ vsk.out[k].p = <<pts0[k][1], pts0[k][2], Frac(1, 10)>>

\* two points, one from the constructor and one from add_point, debug on
C7_Witness ==
    /\ pc = "done"
    /\ Len(pts0) = 2
    /\ Len(orig) = 1
    /\ self.debug
    /\ Len(vsk.out) = 2

(***************************************************************************)
(* C8: the line set owns its points: add_point and draw never change the   *)
(* list object the caller passed to the constructor, and the list that     *)
(* get_points returns is not the one the set works on.                     *)
(***************************************************************************)
C8_CallerListUntouched ==
    /\ heap[CallerRef] = orig
    /\ pc = "done" => get_points # self.points

(***************************************************************************)
(* C9: every debug block restores the stroke it found, so the stroke after *)
(* draw returns is the stroke before the call, and every line and arc of   *)
(* the path is drawn with that stroke.                                     *)
(***************************************************************************)
C9_StrokeRestored ==
    /\ pc = "done" => vsk.stroke = stroke0
    /\ \A k \in DOMAIN Path : Path[k].stroke = stroke0

(***************************************************************************)
(* C10: for n >= 3 points the lines and arcs of the path form one          *)
(* continuous path: the first is a line from the original points[0], each  *)
(* primitive begins where the one before it ended (an arc's ends being its *)
(* tangent points a and b), the last is a line to the original             *)
(* points[n-1].                                                            *)
(***************************************************************************)
C10_ContinuousPath ==
    (pc = "done" /\ Len(pts0) >= 3) =>
        /\ Len(Path) = 2 * Len(Rounded) + 1
        /\ Path[1].kind = "line"
        /\ LineStart(Path[1]) = XY(pts0[1])
        /\ \A j \in DOMAIN Rounded :
              /\ Path[2 * j - 1].kind = "line"
              /\ Path[2 * j].kind = "arc"
              /\ LineEnd(Path[2 * j - 1]) = Rounded[j].a
              /\ LineStart(Path[2 * j + 1]) = Rounded[j].b
        /\ Path[Len(Path)].kind = "line"
        /\ LineEnd(Path[Len(Path)]) = XY(pts0[Len(pts0)])

=============================================================================
